---- MODULE Spec2Model ----
(***************************************************************************)
(* Model of the chat-provider adapter layer: the two provider clients     *)
(* (OpenAIService, GeminiService) with their credential cache over         *)
(* localStorage, the uniform -> Gemini message translation, the handling  *)
(* of the fetch response, and the useGemini facade hook with its loading   *)
(* flag.                                                                   *)
(*                                                                         *)
(* JavaScript strings are TLA+ strings.  The JavaScript value null is the  *)
(* reserved value `null' below, which is no member of Secrets.             *)
(***************************************************************************)
EXTENDS Integers, Sequences, FiniteSets, TLC

VARIABLES
    apiKey,         \* [client -> this.apiKey]: the in-memory credential cache
    localStorage,   \* [storage key -> stored text or null]: durable storage
    calls,          \* the createChatCompletion calls suspended at an await
    last,           \* the most recently completed public operation, with
                    \* its arguments, return value and side effects
    loading,        \* the facade hook's useState(false) flag
    conversation,   \* a uniform message list handed to geminiService
    request         \* <<the Gemini request built from it>>, <<>> before

vars == <<apiKey, localStorage, calls, last, loading, conversation, request>>

storeVars == <<apiKey, localStorage>>
translateVars == <<conversation, request>>

----------------------------------------------------------------------------
(* Bounds of the model *)

MaxClientCalls == 1     \* direct client calls in flight at once
MaxHookCalls == 2       \* generateResponse calls in flight at once
MaxLen == 3             \* longest uniform message list translated

----------------------------------------------------------------------------
(* JavaScript values *)

null == "<null>"

Secrets == {"", "sk-A", "AI-B"}

\* JavaScript truthiness of a `string | null' value: null and "" are falsy.
Truthy(v) == v # null /\ v # ""

Clients == {"openai", "gemini"}

\* The fixed per-provider localStorage key.
StorageKey(p) == IF p = "openai" THEN "openai_api_key" ELSE "gemini_api_key"

StorageKeys == {StorageKey(p) : p \in Clients}

baseUrl(p) ==
    IF p = "openai" THEN "https://api.openai.com/v1"
    ELSE "https://generativelanguage.googleapis.com/v1beta"

defaultModel(p) == IF p = "openai" THEN "gpt-4o-mini" ELSE "gemini-pro"

----------------------------------------------------------------------------
(* Credential store: setApiKey / getApiKey / clearApiKey of both services *)

\* A faulty setApiKey that never persists the credential.
SetApiKeyCacheOnly(p, k) ==
    /\ apiKey' = [apiKey EXCEPT ![p] = k]
    /\ UNCHANGED localStorage

\* setApiKey(apiKey): this.apiKey = apiKey; localStorage.setItem(key, apiKey)
SetApiKey(p, k) ==
    /\ apiKey' = [apiKey EXCEPT ![p] = k]
    /\ localStorage' = [localStorage EXCEPT ![StorageKey(p)] = k]

\* A faulty getApiKey that never reads localStorage.
GetApiKeyValueCacheOnly(cache, stored) == cache

\* The value of this.apiKey after getApiKey(), which is also what it returns:
\* a falsy cache is refreshed from localStorage when the stored value is truthy.
GetApiKeyValue(cache, stored) ==
    IF ~Truthy(cache) /\ Truthy(stored) THEN stored ELSE cache

GetApiKeyResult(p) == GetApiKeyValue(apiKey[p], localStorage[StorageKey(p)])

\* getApiKey(): only the cache may change.
GetApiKey(p) ==
    /\ apiKey' = [apiKey EXCEPT ![p] = GetApiKeyResult(p)]
    /\ UNCHANGED localStorage

\* A faulty clearApiKey that leaves the stored credential behind.
ClearApiKeyCacheOnly(p) ==
    /\ apiKey' = [apiKey EXCEPT ![p] = null]
    /\ UNCHANGED localStorage

\* clearApiKey(): this.apiKey = null; localStorage.removeItem(key)
ClearApiKey(p) ==
    /\ apiKey' = [apiKey EXCEPT ![p] = null]
    /\ localStorage' = [localStorage EXCEPT ![StorageKey(p)] = null]

----------------------------------------------------------------------------
(* Uniform messages and the Uniform -> Gemini translation *)

Roles == {"system", "user", "assistant"}

MessageTexts == {"", "Hi", "Be terse."}

ChatMessages == [role : Roles, content : MessageTexts]

\* messages.find(msg => msg.role === 'system'): the first system message as
\* a list of one element, the empty list when find returns undefined.
RECURSIVE findSystemMessage(_)
findSystemMessage(messages) ==
    IF messages = <<>> THEN <<>>
    ELSE IF Head(messages).role = "system" THEN <<Head(messages)>>
    ELSE findSystemMessage(Tail(messages))

\* A faulty role mapping that passes the uniform role through.
GeminiRoleUnmapped(role) == role

\* msg.role === 'assistant' ? 'model' : 'user'
GeminiRole(role) == IF role = "assistant" THEN "model" ELSE "user"

\* msg => ({ role: ..., parts: [{ text: msg.content }] })
ToGeminiMessage(msg) ==
    [role |-> GeminiRole(msg.role), parts |-> <<[text |-> msg.content]>>]

\* messages.filter(msg => msg.role !== 'system').map(...)
RECURSIVE convertToGeminiMessages(_)
convertToGeminiMessages(messages) ==
    IF messages = <<>> THEN <<>>
    ELSE IF Head(messages).role # "system"
         THEN <<ToGeminiMessage(Head(messages))>>
                  \o convertToGeminiMessages(Tail(messages))
         ELSE convertToGeminiMessages(Tail(messages))

\* A faulty merge that separates the two texts by a single newline.
SystemPrefixedOneNewline(systemContent, text) == systemContent \o "\n" \o text

\* `${systemMessage.content}\n\n${geminiMessages[0].parts[0].text}`
SystemPrefixed(systemContent, text) == systemContent \o "\n\n" \o text

\* The `contents' of the Gemini request: the converted messages, the system
\* message merged into the first turn when that turn has role 'user'.
GeminiContents(messages) ==
    LET systemMessage == findSystemMessage(messages)
        geminiMessages == convertToGeminiMessages(messages)
    IN  IF /\ systemMessage # <<>>
           /\ Len(geminiMessages) > 0
           /\ geminiMessages[1].role = "user"
        THEN [geminiMessages EXCEPT
                 ![1].parts[1].text = SystemPrefixed(systemMessage[1].content, @)]
        ELSE geminiMessages

----------------------------------------------------------------------------
(* The outbound request *)

undefined == "<undefined>"

\* options.model || this.defaultModel
ModelOf(p, options) ==
    IF options.model # undefined /\ options.model # ""
    THEN options.model ELSE defaultModel(p)

\* options.temperature ?? 0.7   (numbers are written as their text)
TemperatureOf(options) ==
    IF options.temperature # undefined THEN options.temperature ELSE "0.7"

\* The fetch() issued by OpenAIService.createChatCompletion.
OpenAIRequest(key, messages, options) ==
    [url           |-> baseUrl("openai") \o "/chat/completions",
     authorization |-> "Bearer " \o key,
     body          |-> [model       |-> ModelOf("openai", options),
                        messages    |-> messages,
                        temperature |-> TemperatureOf(options),
                        max_tokens  |-> options.max_tokens]]

\* The fetch() issued by GeminiService.createChatCompletion.
GeminiRequest(key, messages, options) ==
    [url           |-> baseUrl("gemini") \o "/models/" \o ModelOf("gemini", options)
                           \o ":generateContent?key=" \o key,
     authorization |-> undefined,
     body          |-> [contents         |-> GeminiContents(messages),
                        generationConfig |->
                            [temperature     |-> TemperatureOf(options),
                             maxOutputTokens |-> options.max_tokens]]]

BuildRequest(p, key, messages, options) ==
    IF p = "openai" THEN OpenAIRequest(key, messages, options)
    ELSE GeminiRequest(key, messages, options)

\* The conversation and the options of the calls made on the services and
\* the hook, and the options of the requests built from every conversation.
SampleConversation ==
    <<[role |-> "system", content |-> "Be terse."],
      [role |-> "user", content |-> "Hi"]>>

NoOptions ==
    [model |-> undefined, temperature |-> undefined, max_tokens |-> undefined]

SampleOptions ==
    {NoOptions, [model |-> "custom-model", temperature |-> "0", max_tokens |-> "256"]}

----------------------------------------------------------------------------
(* The response: what fetch() settles with, and response.json() *)

\* Parsed JSON values, tagged with their JavaScript type.
JNull == [t |-> "null"]
JUndefined == [t |-> "undefined"]
JStr(s) == [t |-> "string", s |-> s]
JArr(a) == [t |-> "array", a |-> a]
JObj(f) == [t |-> "object", f |-> f]

\* v.name for a value v that is neither null nor undefined.
Prop(v, name) ==
    IF v.t = "object" /\ name \in DOMAIN v.f THEN v.f[name] ELSE JUndefined

Nullish(v) == v.t \in {"null", "undefined"}

\* JavaScript truthiness of a parsed value.
JTruthy(v) == ~Nullish(v) /\ ~(v.t = "string" /\ v.s = "")

\* String(v), as new Error(v) and a template take it.
JText(v) == IF v.t = "string" THEN v.s ELSE "[object Object]"

\* The response bodies the model's servers send.
HtmlBody == "<html>502 Bad Gateway</html>"
EmptyBody == ""
NullBody == "null"
EmptyObjectBody == "{}"
ErrorBody == "{\"error\":{\"message\":\"API key not valid\"}}"
ErrorNoMessageBody == "{\"error\":{\"code\":500}}"
NoCandidatesBody == "{\"candidates\":[]}"
BlockedBody == "{\"candidates\":[{\"finishReason\":\"SAFETY\"}]}"
CandidateBody ==
    "{\"candidates\":[{\"content\":{\"parts\":[{\"text\":\"Hello\"}],\"role\":\"model\"}}]}"
NoChoicesBody == "{\"choices\":[]}"
ChoiceBody == "{\"choices\":[{\"message\":{\"role\":\"assistant\",\"content\":\"Hello\"}}]}"

\* JSON.parse on those bodies: the value, or the SyntaxError it throws.
JSONParse(text) ==
    CASE text = HtmlBody ->
           [ok |-> FALSE,
            message |-> "Unexpected token '<', \"<html>502 \"... is not valid JSON"]
      [] text = EmptyBody ->
           [ok |-> FALSE, message |-> "Unexpected end of JSON input"]
      [] text = NullBody -> [ok |-> TRUE, value |-> JNull]
      [] text = EmptyObjectBody -> [ok |-> TRUE, value |-> JObj(<<>>)]
      [] text = ErrorBody ->
           [ok |-> TRUE,
            value |-> JObj([error |-> JObj([message |-> JStr("API key not valid")])])]
      [] text = ErrorNoMessageBody ->
           [ok |-> TRUE, value |-> JObj([error |-> JObj([code |-> JStr("500")])])]
      [] text = NoCandidatesBody ->
           [ok |-> TRUE, value |-> JObj([candidates |-> JArr(<<>>)])]
      [] text = BlockedBody ->
           [ok |-> TRUE,
            value |-> JObj([candidates |->
                        JArr(<<JObj([finishReason |-> JStr("SAFETY")])>>)])]
      [] text = CandidateBody ->
           [ok |-> TRUE,
            value |-> JObj([candidates |->
                        JArr(<<JObj([content |->
                                 JObj([parts |-> JArr(<<JObj([text |-> JStr("Hello")])>>),
                                       role |-> JStr("model")])])>>)])]
      [] text = NoChoicesBody ->
           [ok |-> TRUE, value |-> JObj([choices |-> JArr(<<>>)])]
      [] text = ChoiceBody ->
           [ok |-> TRUE,
            value |-> JObj([choices |->
                        JArr(<<JObj([message |->
                                 JObj([role |-> JStr("assistant"),
                                       content |-> JStr("Hello")])])>>)])]

ErrorBodies ==
    {HtmlBody, EmptyBody, NullBody, EmptyObjectBody, ErrorBody, ErrorNoMessageBody}

SuccessBodies(p) ==
    {HtmlBody, EmptyBody, NullBody, EmptyObjectBody}
        \cup (IF p = "openai" THEN {NoChoicesBody, ChoiceBody}
              ELSE {NoCandidatesBody, BlockedBody, CandidateBody})

\* What the awaited fetch() settles with: a rejection (the network failed),
\* or a response with its ok flag and body text.
FetchOutcomes(p) ==
    {[net |-> "rejected", ok |-> FALSE, body |-> ""]}
        \cup {[net |-> "response", ok |-> FALSE, body |-> b] : b \in ErrorBodies}
        \cup {[net |-> "response", ok |-> TRUE, body |-> b] : b \in SuccessBodies(p)}

----------------------------------------------------------------------------
(* createChatCompletion: the try block and its catch *)

\* ChatMessage | null as a list: NoMessage is null, <<m>> the message m.
NoMessage == <<>>

Thrown(message) == [threw |-> TRUE, message |-> message, value |-> NoMessage]
Returned(m) == [threw |-> FALSE, message |-> "", value |-> <<m>>]

GenericFailure(p) ==
    IF p = "openai" THEN "Failed to connect to OpenAI API"
    ELSE "Failed to connect to Gemini API"

\* if (!response.ok) { const error = await response.json();
\*                     throw new Error(error.error?.message || '...') }
ErrorResponse(p, body) ==
    LET parsed == JSONParse(body) IN
    IF ~parsed.ok THEN Thrown(parsed.message)
    ELSE IF Nullish(parsed.value)
         THEN Thrown("Cannot read properties of null (reading 'error')")
    ELSE LET error == Prop(parsed.value, "error")
             message == IF Nullish(error) THEN JUndefined ELSE Prop(error, "message")
         IN  Thrown(IF JTruthy(message) THEN JText(message) ELSE GenericFailure(p))

\* const data = await response.json(); return data.choices[0].message;
\* (every choice the model's servers send carries a message)
OpenAISuccess(body) ==
    LET parsed == JSONParse(body) IN
    IF ~parsed.ok THEN Thrown(parsed.message)
    ELSE IF Nullish(parsed.value)
         THEN Thrown("Cannot read properties of null (reading 'choices')")
    ELSE LET choices == Prop(parsed.value, "choices") IN
         IF Nullish(choices)
         THEN Thrown("Cannot read properties of undefined (reading '0')")
         ELSE IF ~(choices.t = "array" /\ Len(choices.a) > 0)
         THEN Thrown("Cannot read properties of undefined (reading 'message')")
         ELSE LET message == Prop(choices.a[1], "message")
              IN  Returned([role |-> JText(Prop(message, "role")),
                            content |-> JText(Prop(message, "content"))])

\* const data = await response.json();
\* if (!data.candidates || data.candidates.length === 0) throw new Error(...);
\* return { role: 'assistant', content: data.candidates[0].content.parts[0].text };
GeminiSuccess(body) ==
    LET parsed == JSONParse(body) IN
    IF ~parsed.ok THEN Thrown(parsed.message)
    ELSE IF Nullish(parsed.value)
         THEN Thrown("Cannot read properties of null (reading 'candidates')")
    ELSE LET candidates == Prop(parsed.value, "candidates") IN
         IF ~JTruthy(candidates) \/ (candidates.t = "array" /\ Len(candidates.a) = 0)
         THEN Thrown("No response generated from Gemini API")
         ELSE LET content == Prop(candidates.a[1], "content") IN
              IF Nullish(content)
              THEN Thrown("Cannot read properties of undefined (reading 'parts')")
              ELSE LET parts == Prop(content, "parts") IN
                   IF Nullish(parts)
                   THEN Thrown("Cannot read properties of undefined (reading '0')")
                   ELSE IF ~(parts.t = "array" /\ Len(parts.a) > 0)
                   THEN Thrown("Cannot read properties of undefined (reading 'text')")
                   ELSE Returned([role |-> "assistant",
                                  content |-> JText(Prop(parts.a[1], "text"))])

\* The try block from the awaited fetch() on: how it ends for a fetch outcome.
TryBlock(p, outcome) ==
    IF outcome.net = "rejected" THEN Thrown("Failed to fetch")
    ELSE IF ~outcome.ok THEN ErrorResponse(p, outcome.body)
    ELSE IF p = "openai" THEN OpenAISuccess(outcome.body)
    ELSE GeminiSuccess(outcome.body)

\* A notification handed to toast().
Toast(title, description, variant) ==
    [title |-> title, description |-> description, variant |-> variant]

MissingToast(p) ==
    Toast("API Key Missing",
          IF p = "openai" THEN "Please set your OpenAI API key in the settings"
          ELSE "Please set your Gemini API key in the settings",
          "destructive")

\* error.message || "Something went wrong"
FailureToast(message) ==
    Toast("AI Request Failed",
          IF message # "" THEN message ELSE "Something went wrong",
          "destructive")

\* A faulty catch that handles only the errors the client itself throws with
\* new Error(...) and lets the runtime's errors (a SyntaxError of json(), a
\* TypeError, a failed fetch) pass to the caller.
SettleRethrows(tried) ==
    IF tried.threw
    THEN IF tried.message \in {"Failed to connect to OpenAI API",
                               "Failed to connect to Gemini API",
                               "No response generated from Gemini API",
                               "API key not valid"}
         THEN [rejected |-> FALSE, value |-> NoMessage,
               toasts |-> <<FailureToast(tried.message)>>]
         ELSE [rejected |-> TRUE, value |-> NoMessage, toasts |-> <<>>]
    ELSE [rejected |-> FALSE, value |-> tried.value, toasts |-> <<>>]

\* How the promise of createChatCompletion settles once the try block ended:
\* catch (error) { toast(...); console.error(...); return null; }
Settle(tried) ==
    IF tried.threw
    THEN [rejected |-> FALSE, value |-> NoMessage,
          toasts |-> <<FailureToast(tried.message)>>]
    ELSE [rejected |-> FALSE, value |-> tried.value, toasts |-> <<>>]

----------------------------------------------------------------------------
(* The record of the most recently completed operation *)

NoOutcome == [net |-> "none", ok |-> FALSE, body |-> ""]

\* op: the operation; client: the service it ran on; hook: whether it is the
\* useGemini wrapper of it; arg, ret: its argument and return value; toasts:
\* the notifications it emitted; requests: the fetch() calls it issued;
\* outcome: what its fetch() settled with; rejected: whether it threw.
Completed(op, client, hook, arg, ret, toasts, requests, outcome, rejected) ==
    [op |-> op, client |-> client, hook |-> hook, arg |-> arg, ret |-> ret,
     toasts |-> toasts, requests |-> requests, outcome |-> outcome,
     rejected |-> rejected]

Remove(seq, i) == SubSeq(seq, 1, i - 1) \o SubSeq(seq, i + 1, Len(seq))

InFlight(hook) == Cardinality({i \in 1..Len(calls) : calls[i].hook = hook})

----------------------------------------------------------------------------
(* Operations of the services (openaiService, geminiService) *)

ServiceSetApiKey(p) ==
    \E k \in Secrets :
        /\ SetApiKey(p, k)
        /\ last' = Completed("setApiKey", p, FALSE, k, TRUE, <<>>, <<>>,
                             NoOutcome, FALSE)
        /\ UNCHANGED <<calls, loading, translateVars>>

ServiceGetApiKey(p) ==
    /\ GetApiKey(p)
    /\ last' = Completed("getApiKey", p, FALSE, null, GetApiKeyResult(p), <<>>, <<>>,
                         NoOutcome, FALSE)
    /\ UNCHANGED <<calls, loading, translateVars>>

ServiceClearApiKey(p) ==
    /\ ClearApiKey(p)
    /\ last' = Completed("clearApiKey", p, FALSE, null, null, <<>>, <<>>,
                         NoOutcome, FALSE)
    /\ UNCHANGED <<calls, loading, translateVars>>

\* A faulty createChatCompletion whose missing-credential branch notifies but
\* does not return, so that the request is issued all the same.
BeginCompletionNoReturn(p, hook, options, answered) ==
    LET key == GetApiKeyResult(p) IN
    /\ GetApiKey(p)
    /\ last' = last
    /\ calls' = Append(calls,
           [client |-> p, hook |-> hook,
            state |-> IF answered THEN "fetching" ELSE "hung",
            requests |-> <<BuildRequest(p, key, SampleConversation, options)>>,
            toasts |-> IF Truthy(key) THEN <<>> ELSE <<MissingToast(p)>>])

\* createChatCompletion up to its first await: the credential is resolved;
\* without one the call notifies and returns null, with one it builds the
\* request, issues fetch() and suspends.  A call made by the hook stays in
\* `calls' until generateResponse resumes.  `answered' is the network's part:
\* whether the fetch() will ever settle; a fetch() that will not is "hung".
BeginCompletion(p, hook, options, answered) ==
    LET key == GetApiKeyResult(p) IN
    /\ GetApiKey(p)
    /\ IF ~Truthy(key)
       THEN /\ last' = IF hook THEN last
                       ELSE Completed("createChatCompletion", p, FALSE, null, NoMessage,
                                      <<MissingToast(p)>>, <<>>, NoOutcome, FALSE)
            /\ calls' = IF hook
                        THEN Append(calls, [client |-> p, hook |-> TRUE,
                                            state |-> "settled", requests |-> <<>>,
                                            toasts |-> <<MissingToast(p)>>])
                        ELSE calls
       ELSE /\ last' = last
            /\ calls' = Append(calls,
                   [client |-> p, hook |-> hook,
                    state |-> IF answered THEN "fetching" ELSE "hung",
                    requests |-> <<BuildRequest(p, key, SampleConversation, options)>>,
                    toasts |-> <<>>])

\* A direct call of service.createChatCompletion(messages).
CreateChatCompletion(p) ==
    /\ Truthy(GetApiKeyResult(p)) => InFlight(FALSE) < MaxClientCalls
    /\ BeginCompletion(p, FALSE, NoOptions, TRUE)
    /\ UNCHANGED <<loading, translateVars>>

\* The awaited fetch() of the direct call i settles and createChatCompletion
\* runs to its end: the response is read and translated, or the failure caught.
FetchSettles(i) ==
    /\ ~calls[i].hook /\ calls[i].state = "fetching"
    /\ \E outcome \in FetchOutcomes(calls[i].client) :
         LET c == calls[i]
             r == Settle(TryBlock(c.client, outcome))
         IN  last' = Completed("createChatCompletion", c.client, FALSE, null,
                               r.value, r.toasts, c.requests, outcome, r.rejected)
    /\ calls' = Remove(calls, i)
    /\ UNCHANGED <<storeVars, loading, translateVars>>

\* The page is loaded again: the module singletons and the hook state are
\* constructed afresh, the suspended calls are gone, localStorage is kept.
Restart ==
    /\ apiKey' = [p \in Clients |-> null]
    /\ loading' = FALSE
    /\ calls' = <<>>
    /\ UNCHANGED <<localStorage, last, translateVars>>

----------------------------------------------------------------------------
(* Operations of the facade hook useGemini *)

SavedToast ==
    Toast("API Key Saved", "Your Gemini API key has been saved successfully", "default")

RemovedToast ==
    Toast("API Key Removed", "Your Gemini API key has been removed", "default")

HookSetApiKey ==
    \E k \in Secrets :
        /\ SetApiKey("gemini", k)
        /\ last' = Completed("setApiKey", "gemini", TRUE, k, TRUE, <<SavedToast>>, <<>>,
                             NoOutcome, FALSE)
        /\ UNCHANGED <<calls, loading, translateVars>>

HookGetApiKey ==
    /\ GetApiKey("gemini")
    /\ last' = Completed("getApiKey", "gemini", TRUE, null, GetApiKeyResult("gemini"),
                         <<>>, <<>>, NoOutcome, FALSE)
    /\ UNCHANGED <<calls, loading, translateVars>>

HookClearApiKey ==
    /\ ClearApiKey("gemini")
    /\ last' = Completed("clearApiKey", "gemini", TRUE, null, null, <<RemovedToast>>,
                         <<>>, NoOutcome, FALSE)
    /\ UNCHANGED <<calls, loading, translateVars>>

\* A faulty generateResponse that never sets the flag.
GenerateResponseNoLoading ==
    \E answered \in BOOLEAN :
        /\ InFlight(TRUE) < MaxHookCalls
        /\ loading' = loading
        /\ BeginCompletion("gemini", TRUE, NoOptions, answered)
        /\ UNCHANGED translateVars

\* generateResponse up to its await: setLoading(true), then the client call
\* (with the default options = {}).
GenerateResponse ==
    \E answered \in BOOLEAN :
        /\ InFlight(TRUE) < MaxHookCalls
        /\ loading' = TRUE
        /\ BeginCompletion("gemini", TRUE, NoOptions, answered)
        /\ UNCHANGED translateVars

\* A faulty continuation that clears the flag only when a response arrived.
ResumeGenerateOnResponse(c, settled, outcome) ==
    /\ loading' = IF settled.rejected \/ settled.value = NoMessage
                  THEN loading ELSE FALSE
    /\ last' = Completed("generateResponse", c.client, TRUE, null,
                         IF settled.rejected THEN NoMessage ELSE settled.value,
                         c.toasts \o settled.toasts, c.requests, outcome, FALSE)

\* The rest of generateResponse, from the settled promise `settled' of the
\* client call c: setLoading(false) and the response, or in the catch
\* setLoading(false) and null.
ResumeGenerate(c, settled, outcome) ==
    /\ loading' = FALSE
    /\ last' = Completed("generateResponse", c.client, TRUE, null,
                         IF settled.rejected THEN NoMessage ELSE settled.value,
                         c.toasts \o settled.toasts, c.requests, outcome, FALSE)

\* generateResponse resumes for a call whose client returned null without
\* suspending (no credential).
GenerateResponseResumes(i) ==
    /\ calls[i].hook /\ calls[i].state = "settled"
    /\ ResumeGenerate(calls[i],
                      [rejected |-> FALSE, value |-> NoMessage, toasts |-> <<>>],
                      NoOutcome)
    /\ calls' = Remove(calls, i)
    /\ UNCHANGED <<storeVars, translateVars>>

\* The awaited fetch() of the hook's call i settles: createChatCompletion runs
\* to its end and generateResponse resumes in the same microtask checkpoint.
GenerateResponseSettles(i) ==
    /\ calls[i].hook /\ calls[i].state = "fetching"
    /\ \E outcome \in FetchOutcomes(calls[i].client) :
         ResumeGenerate(calls[i], Settle(TryBlock(calls[i].client, outcome)), outcome)
    /\ calls' = Remove(calls, i)
    /\ UNCHANGED <<storeVars, translateVars>>

----------------------------------------------------------------------------
(* The request built from the conversations of a caller *)

AppendMessage(m) ==
    /\ Len(conversation) < MaxLen
    /\ conversation' = Append(conversation, m)
    /\ request' = <<>>
    /\ UNCHANGED <<storeVars, calls, last, loading>>

\* The try block of GeminiService.createChatCompletion up to fetch(), for a
\* resolved credential: the translation and the request.
Translate ==
    /\ request = <<>>
    /\ \E key \in Secrets \ {""}, options \in SampleOptions :
         request' = <<GeminiRequest(key, conversation, options)>>
    /\ UNCHANGED <<storeVars, calls, last, loading, conversation>>

NewConversation ==
    /\ request # <<>>
    /\ conversation' = <<>>
    /\ request' = <<>>
    /\ UNCHANGED <<storeVars, calls, last, loading>>

----------------------------------------------------------------------------
(* Specifications *)

NoOperation ==
    Completed("none", "none", FALSE, null, null, <<>>, <<>>, NoOutcome, FALSE)

\* The state after construction in a browser that never ran the application:
\* empty caches, empty storage, no call, loading false.  (Restart gives the
\* states after construction over the storage earlier sessions left.)
Init ==
    /\ apiKey = [p \in Clients |-> null]
    /\ localStorage = [k \in StorageKeys |-> null]
    /\ calls = <<>>
    /\ last = NoOperation
    /\ loading = FALSE
    /\ conversation = <<>>
    /\ request = <<>>

\* The two provider clients used directly.
Next ==
    \/ \E p \in Clients : ServiceSetApiKey(p)
    \/ \E p \in Clients : ServiceGetApiKey(p)
    \/ \E p \in Clients : ServiceClearApiKey(p)
    \/ \E p \in Clients : CreateChatCompletion(p)
    \/ \E i \in 1..Len(calls) : FetchSettles(i)
    \/ Restart

Spec == Init /\ [][Next]_vars

\* The facade hook over geminiService.
NextHook ==
    \/ HookSetApiKey
    \/ HookGetApiKey
    \/ HookClearApiKey
    \/ GenerateResponse
    \/ \E i \in 1..Len(calls) : GenerateResponseSettles(i)
    \/ \E i \in 1..Len(calls) : GenerateResponseResumes(i)
    \/ Restart

SpecHook == Init /\ [][NextHook]_vars

\* The Gemini request for every conversation of at most MaxLen messages.
NextTranslate ==
    \/ \E m \in ChatMessages : AppendMessage(m)
    \/ Translate
    \/ NewConversation

SpecTranslate == Init /\ [][NextTranslate]_vars

----------------------------------------------------------------------------
(* Properties *)

Other(p) == IF p = "openai" THEN "gemini" ELSE "openai"

\* C1. A createChatCompletion call made on either client while its cache is
\* empty and the storage holds nothing under its key returns null, emits
\* exactly one notification, titled "API Key Missing", and issues no request:
\* none is reported by the call and none is left in flight.
C1_MissingCredential ==
    [][\A p \in Clients :
          (/\ apiKey[p] = null
           /\ localStorage[StorageKey(p)] = null
           /\ CreateChatCompletion(p))
          => /\ last'.op = "createChatCompletion"
             /\ last'.client = p
             /\ last'.ret = NoMessage
             /\ Len(last'.toasts) = 1
             /\ last'.toasts[1].title = "API Key Missing"
             /\ last'.requests = <<>>
             /\ calls' = calls]_vars

\* A call on each client has just returned null for want of a credential.
C1_Witness ==
    /\ last.op = "createChatCompletion"
    /\ ~last.hook
    /\ last.outcome = NoOutcome
    /\ last.ret = NoMessage
    /\ apiKey[last.client] = null
    /\ localStorage[StorageKey(last.client)] = null

\* C2, as stated: a getApiKey that follows a setApiKey(X) on the same client,
\* with nothing but restarts (cache resets) and other clients' operations in
\* between, returns X, for every X.
C2_GetAfterSet_AnySecret ==
    [][(/\ last.op = "setApiKey"
        /\ last'.op = "getApiKey"
        /\ last'.client = last.client)
       => last'.ret = last.arg]_vars

\* C2, amended: the same for every non-empty X.
C2_GetAfterSet ==
    [][(/\ last.op = "setApiKey"
        /\ last.arg # ""
        /\ last'.op = "getApiKey"
        /\ last'.client = last.client)
       => last'.ret = last.arg]_vars

\* getApiKey has just returned a credential that it had to read from the
\* storage or found in the cache; either way a setApiKey put it there.
C2_Witness ==
    /\ last.op = "getApiKey"
    /\ last.ret = "sk-A"
    /\ apiKey[last.client] = "sk-A"

\* C3. After clearApiKey the credential is in neither the cache nor the
\* storage, and getApiKey returns null, until the next operation on the client.
C3_ClearRemoves ==
    last.op = "clearApiKey"
    => /\ apiKey[last.client] = null
       /\ localStorage[StorageKey(last.client)] = null
       /\ GetApiKeyResult(last.client) = null

\* clearApiKey has just run on a client while the other one holds a key.
C3_Witness ==
    /\ last.op = "clearApiKey"
    /\ ~last.hook
    /\ apiKey[Other(last.client)] # null

IsSystem(m) == m.role = "system"
IsNotSystem(m) == m.role # "system"

\* C4. When the conversation has a system message and its first non-system
\* message is a user message, the first turn of the request's contents has as
\* text the first system message's content, two newlines, and that user
\* message's content, and the text of every later turn is the content of the
\* non-system message it stands for.
C4_SystemMerged ==
    LET systems == SelectSeq(conversation, IsSystem)
        turns == SelectSeq(conversation, IsNotSystem)
    IN  (/\ request # <<>>
         /\ systems # <<>>
         /\ turns # <<>>
         /\ turns[1].role = "user")
        => LET contents == request[1].body.contents
           IN  /\ Len(contents) = Len(turns)
               /\ contents[1].parts[1].text
                     = systems[1].content \o "\n\n" \o turns[1].content
               /\ \A i \in 2..Len(turns) : contents[i].parts[1].text = turns[i].content

\* The example of the specification, with a second turn after the merged one.
C4_Witness ==
    /\ conversation = <<[role |-> "system", content |-> "Be terse."],
                        [role |-> "user", content |-> "Hi"],
                        [role |-> "assistant", content |-> "Hi"]>>
    /\ request # <<>>
    /\ request[1].body.contents
          = <<[role |-> "user", parts |-> <<[text |-> "Be terse.\n\nHi"]>>],
              [role |-> "model", parts |-> <<[text |-> "Hi"]>>]>>

\* C5. A conversation without a system message is translated turn for turn:
\* as many turns as messages, in their order, each with the single text part of
\* its message, "assistant" relabelled "model" and "user" kept.
C5_NoSystemRelabelOnly ==
    (request # <<>> /\ SelectSeq(conversation, IsSystem) = <<>>)
    => LET contents == request[1].body.contents
       IN  /\ Len(contents) = Len(conversation)
           /\ \A i \in 1..Len(conversation) :
                /\ contents[i].parts = <<[text |-> conversation[i].content]>>
                /\ conversation[i].role = "assistant" => contents[i].role = "model"
                /\ conversation[i].role = "user" => contents[i].role = "user"

\* A request built from a conversation of both roles and no system message.
C5_Witness ==
    /\ request # <<>>
    /\ Len(conversation) = 3
    /\ SelectSeq(conversation, IsSystem) = <<>>
    /\ \E i, j \in 1..Len(conversation) :
         i < j /\ conversation[i].role = "assistant" /\ conversation[j].role = "user"

\* Whether a settled fetch is a failure: the network failed, the status is no
\* success, or the body is not the well-formed answer of the provider.
Failed(outcome) ==
    \/ outcome.net = "rejected"
    \/ /\ outcome.net = "response"
       /\ ~outcome.ok \/ outcome.body \notin {ChoiceBody, CandidateBody}

\* C6. A createChatCompletion call whose request failed returns null, has
\* emitted one "AI Request Failed" notification, and throws nothing; for an
\* empty candidates list the notification says that no response was generated.
C6_FailuresAbsorbed ==
    (last.op = "createChatCompletion" /\ Failed(last.outcome))
    => /\ ~last.rejected
       /\ last.ret = NoMessage
       /\ Len(last.toasts) = 1
       /\ last.toasts[1].title = "AI Request Failed"
       /\ (last.outcome.ok /\ last.outcome.body = NoCandidatesBody
              /\ last.client = "gemini")
          => last.toasts[1].description = "No response generated from Gemini API"

\* A call on geminiService has ended on an empty candidates list.
C6_Witness ==
    /\ last.op = "createChatCompletion"
    /\ last.client = "gemini"
    /\ last.outcome = [net |-> "response", ok |-> TRUE, body |-> NoCandidatesBody]
    /\ last.ret = NoMessage
    /\ Len(last.requests) = 1

\* C7. When the body of the response is no JSON, the description of the
\* failure notification is one of the fixed generic texts.
C7_MalformedBodyGenericMessage ==
    (/\ last.op = "createChatCompletion"
     /\ last.outcome.net = "response"
     /\ ~JSONParse(last.outcome.body).ok)
    => /\ Len(last.toasts) = 1
       /\ last.toasts[1].description
             \in {GenericFailure(last.client), "Something went wrong"}

\* C8. The loading flag is true only while a generateResponse call is
\* pending: with none pending it is false.
C8_LoadingOnlyWhilePending ==
    InFlight(TRUE) = 0 => ~loading

\* A generateResponse call has ended without a response and none is pending.
C8_Witness ==
    /\ last.op = "generateResponse"
    /\ last.ret = NoMessage
    /\ last.outcome.net = "response"
    /\ calls = <<>>
    /\ ~loading

\* C9, as stated: while a call whose request never resolves is pending, the
\* loading flag is true.
C9_HungHoldsLoading ==
    (\E i \in 1..Len(calls) : calls[i].state = "hung") => loading

\* C9, amended: starting a generateResponse call sets the flag, and while a
\* call is pending the flag is cleared by nothing but the completion of a
\* generateResponse call (which clears it even if another call is hung).
C9_LoadingHeldUntilACompletion ==
    [][/\ Len(calls') > Len(calls) => loading'
       /\ (loading /\ ~loading' /\ calls' # <<>>) => Len(calls') < Len(calls)]_vars

\* A call is hung, the flag is true, and the hook has run another operation.
C9_Witness ==
    /\ \E i \in 1..Len(calls) : calls[i].state = "hung"
    /\ loading
    /\ last.op = "clearApiKey"
    /\ last.hook

Coherent ==
    \A p \in Clients : apiKey[p] # null => localStorage[StorageKey(p)] = apiKey[p]

\* C10. Whenever a cache holds a credential the storage holds the same value
\* under that client's key, and an operation on one client changes neither
\* the cache nor the storage entry of the other: in every step the other
\* client's entries are unchanged, or the step is no operation on this one.
C10_CacheCoherence ==
    [][/\ Coherent'
       /\ \A p \in Clients :
            \/ /\ apiKey'[Other(p)] = apiKey[Other(p)]
               /\ localStorage'[StorageKey(Other(p))] = localStorage[StorageKey(Other(p))]
            \/ ~(\/ ServiceSetApiKey(p)
                 \/ ServiceGetApiKey(p)
                 \/ ServiceClearApiKey(p)
                 \/ CreateChatCompletion(p)
                 \/ \E i \in 1..Len(calls) : calls[i].client = p /\ FetchSettles(i))]_vars

\* Both caches hold a credential, each its own.
C10_Witness ==
    /\ apiKey["openai"] = "sk-A"
    /\ apiKey["gemini"] = "AI-B"
    /\ Coherent

====
